---- MODULE Spec2Model ----
(***************************************************************************)
(* Weight-perturbation gradient estimation (weight_perturbation.py).       *)
(*                                                                         *)
(* Numbers are exact rationals [n, d] in lowest terms (Python floats       *)
(* without rounding).  An array is a one-dimensional sequence of numbers;  *)
(* its shape is its length.  A dict is a function from string keys to      *)
(* arrays.  A call of a library function is a run of steps from "idle" to  *)
(* "returned"; the calls of the two external collaborators                 *)
(* (sampler.sample and forward_pass) are logged with their arguments and   *)
(* outcomes.  The opaque arguments inputs and y are passed through         *)
(* unread and are not represented.                                         *)
(***************************************************************************)
EXTENDS Integers, Sequences, FiniteSets, TLC

VARIABLES
    pc,         \* "idle", "sample", "eval", "returned": position of the current call
    op,         \* name of the library function being called
    method,     \* argument method of the gradient functions
    scale, lr,  \* arguments of update_weights
    c,          \* argument c of dictionary_mult
    mem,        \* the caller's dict objects, by argument name
    mem0,       \* mem as it was when the call was made
    h,          \* local h: the perturbation (being) sampled
    losses,     \* locals clean_loss, perturbed_loss, neg_perturbed_loss, once assigned
    sampleLog,  \* calls of sampler.sample made by the current call
    fwdLog,     \* calls of forward_pass made by the current call
    result      \* what the call returned or raised

vars == <<pc, op, method, scale, lr, c, mem, mem0, h, losses, sampleLog, fwdLog, result>>

(* ------------------------------ bounds --------------------------------- *)

\* largest array length (shape) of a parameter
MaxShape == 2

(* ------------------------- exact arithmetic ---------------------------- *)

Abs(x) == IF x < 0 THEN -x ELSE x

RECURSIVE GCD(_, _)
GCD(a, b) == IF b = 0 THEN a ELSE GCD(b, a % b)

\* the rational n/d (d # 0) in lowest terms with a positive denominator
Norm(n, d) ==
    LET s == IF d < 0 THEN -1 ELSE 1
        g == GCD(Abs(n), Abs(d))
    IN  [n |-> (s * n) \div g, d |-> (s * d) \div g]

R(i) == [n |-> i, d |-> 1]
Q(i, j) == Norm(i, j)

RAdd(a, b) == Norm(a.n * b.d + b.n * a.d, a.d * b.d)
RNeg(a) == [n |-> -a.n, d |-> a.d]
RSub(a, b) == RAdd(a, RNeg(b))
RMul(a, b) == Norm(a.n * b.n, a.d * b.d)
RDiv(a, b) == Norm(a.n * b.d, a.d * b.n)
RPow2(a) == RMul(a, a)
IsZero(a) == a.n = 0

\* array + array, elementwise (both of one shape)
ArrAdd(x, y) == [i \in 1..Len(x) |-> RAdd(x[i], y[i])]
\* array * scalar and scalar * array, elementwise
ArrMul(x, s) == [i \in 1..Len(x) |-> RMul(x[i], s)]

(* ------------------------------ values --------------------------------- *)

Keys == {"w", "b"}
EmptyDict == [k \in {} |-> <<>>]
Restrict(d, K) == [k \in K |-> d[k]]

NoErr == [type |-> "none", msg |-> <<>>]
\* the key a KeyError names is the first missing one in dict1's insertion order,
\* which the model does not track
KeyError == [type |-> "KeyError", msg |-> <<>>]
ZeroDivisionError == [type |-> "ZeroDivisionError", msg |-> <<"division", "by", "zero">>]
Ok(v) == [kind |-> "ok", val |-> v, err |-> NoErr]
Raise(e) == [kind |-> "raise", val |-> EmptyDict, err |-> e]
NoResult == [kind |-> "none", val |-> EmptyDict, err |-> NoErr]

(* ------------------------- dictionary helpers -------------------------- *)

\* dictionary_add: {key: val + dict2[key] for key, val in dict1.items()}
dictionary_add_over_dict2(dict1, dict2) ==
    IF DOMAIN dict2 \subseteq DOMAIN dict1
    THEN Ok([key \in DOMAIN dict2 |-> ArrAdd(dict1[key], dict2[key])])
    ELSE Raise(KeyError)
dictionary_add(dict1, dict2) ==
    IF DOMAIN dict1 \subseteq DOMAIN dict2
    THEN Ok([key \in DOMAIN dict1 |-> ArrAdd(dict1[key], dict2[key])])
    ELSE Raise(KeyError)

\* dictionary_mult: {key: val * c for key, val in dictionary.items()}
dictionary_mult(dictionary, cc) ==
    [key \in DOMAIN dictionary |-> ArrMul(dictionary[key], cc)]

\* update_weights: delta_W = {key: -lr / scale**2 * val ...}; the division is
\* evaluated once per item of gradient, so it faults only if gradient has an item
DivisionFaults(gradient, sc) == DOMAIN gradient # {} /\ IsZero(RPow2(sc))

\* delta_W = {key: -lr / scale**2 * val for key, val in gradient.items()}
delta_W_unsquared(gradient, sc, rate) ==
    [key \in DOMAIN gradient |-> ArrMul(gradient[key], RDiv(RNeg(rate), sc))]
delta_W(gradient, sc, rate) ==
    [key \in DOMAIN gradient |-> ArrMul(gradient[key], RDiv(RNeg(rate), RPow2(sc)))]

\* return dictionary_add(delta_W, params)
update_weights_over_params(gradient, params, sc, rate) ==
    IF DivisionFaults(gradient, sc)
    THEN Raise(ZeroDivisionError)
    ELSE dictionary_add(params, delta_W(gradient, sc, rate))
update_weights(gradient, params, sc, rate) ==
    IF DivisionFaults(gradient, sc)
    THEN Raise(ZeroDivisionError)
    ELSE dictionary_add(delta_W(gradient, sc, rate), params)


(* ----------------- effects of the helpers on their operands ------------- *)

\* dictionary_add builds a new dict of new arrays (val + dict2[key]):
\* <<dict1, dict2>> as the two operand objects are after the call
AddFrame_inplace(dict1, dict2) ==
    <<IF DOMAIN dict1 \subseteq DOMAIN dict2
      THEN [key \in DOMAIN dict1 |-> ArrAdd(dict1[key], dict2[key])]
      ELSE dict1,
      dict2>>
AddFrame(dict1, dict2) == <<dict1, dict2>>

\* dictionary_mult builds a new dict of new arrays (val * c): the operand after the call
MultFrame(dictionary, cc) == dictionary

(* ------------------------------ inputs --------------------------------- *)

\* arrays of shape n a caller passes as parameters
ParamArrays(n) ==
    {[i \in 1..n |-> R(v)] : v \in {1, 2}} \cup {[i \in 1..n |-> R(i)]}
ParamSets ==
    UNION {[K -> UNION {ParamArrays(n) : n \in 1..MaxShape}] : K \in SUBSET Keys}
SameShapes(d1, d2) ==
    \A k \in DOMAIN d1 \cap DOMAIN d2 : Len(d1[k]) = Len(d2[k])

\* one-element arrays for update_weights
GradientSets == UNION {[K -> {<<R(0)>>, <<R(2)>>, <<R(-3)>>}] : K \in SUBSET Keys}
WeightSets == UNION {[K -> {<<R(10)>>, <<R(1)>>}] : K \in SUBSET Keys}
Scales == {R(0), R(1), R(2), Q(1, 2)}
Rates == {R(0), Q(1, 10), R(1), R(-1)}
Multipliers == {R(-1), R(0), R(1), R(3)}

Methods == {"ffd", "cfd", "sgd", ""}
GradientOps == {"compute_gradient", "compute_gradient_vector", "compute_snn_gradient"}

\* what sampler.sample(sample_shape=n) may return: any array of that shape
SampleVals == {R(-1), R(1)}
Samples(n) == [1..n -> SampleVals]

\* what forward_pass may do: return a loss, or raise
LossVals == {R(1), R(2), R(5)}
FwdErrors == {[type |-> "FloatingPointError", msg |-> <<"nan">>],
              [type |-> "TypeError", msg |-> <<"shape", "mismatch">>]}
Returned(l) == [kind |-> "loss", loss |-> l, err |-> NoErr]
Raised(e) == [kind |-> "raise", loss |-> R(0), err |-> e]
Outcomes == {Returned(l) : l \in LossVals} \cup {Raised(e) : e \in FwdErrors}

NoLosses == [k \in {} |-> R(0)]

(* --------------------------- initial state ----------------------------- *)

Idle ==
    /\ pc = "idle"
    /\ op = "none"
    /\ method = "ffd"
    /\ scale = R(1)
    /\ lr = R(0)
    /\ c = R(1)
    /\ mem = EmptyDict
    /\ mem0 = EmptyDict
    /\ h = EmptyDict
    /\ losses = NoLosses
    /\ sampleLog = <<>>
    /\ fwdLog = <<>>
    /\ result = NoResult

Init == Idle

(* --------------------- dictionary_add, dictionary_mult ------------------ *)

CallDictionaryAdd ==
    /\ pc = "idle"
    /\ \E dict1 \in ParamSets, dict2 \in ParamSets :
          /\ SameShapes(dict1, dict2)
          /\ mem0' = [dict1 |-> dict1, dict2 |-> dict2]
          /\ mem' = [dict1 |-> AddFrame(dict1, dict2)[1], dict2 |-> AddFrame(dict1, dict2)[2]]
          /\ result' = dictionary_add(dict1, dict2)
    /\ op' = "dictionary_add"
    /\ pc' = "returned"
    /\ UNCHANGED <<method, scale, lr, c, h, losses, sampleLog, fwdLog>>

CallDictionaryMult ==
    /\ pc = "idle"
    /\ \E dictionary \in ParamSets, cc \in Multipliers :
          /\ mem0' = [dictionary |-> dictionary]
          /\ mem' = [dictionary |-> MultFrame(dictionary, cc)]
          /\ c' = cc
          /\ result' = Ok(dictionary_mult(dictionary, cc))
    /\ op' = "dictionary_mult"
    /\ pc' = "returned"
    /\ UNCHANGED <<method, scale, lr, h, losses, sampleLog, fwdLog>>

(* ---------------------------- update_weights --------------------------- *)

CallUpdateWeights ==
    /\ pc = "idle"
    /\ \E gradient \in GradientSets, params \in WeightSets, sc \in Scales, rate \in Rates :
          /\ mem0' = [gradient |-> gradient, params |-> params]
          \* gradient is only iterated; params is dict2 of dictionary_add(delta_W, params)
          /\ mem' = [gradient |-> gradient,
                     params |-> IF DivisionFaults(gradient, sc)
                                THEN params
                                ELSE AddFrame(delta_W(gradient, sc, rate), params)[2]]
          /\ scale' = sc
          /\ lr' = rate
          /\ result' = update_weights(gradient, params, sc, rate)
    /\ op' = "update_weights"
    /\ pc' = "returned"
    /\ UNCHANGED <<method, c, h, losses, sampleLog, fwdLog>>

(* -------------------------- sample_perturbation ------------------------ *)

\* val.shape
Shape_scalar(val) == 1
Shape(val) == Len(val)

CallSamplePerturbation ==
    /\ pc = "idle"
    /\ \E params \in ParamSets :
          /\ mem0' = [params |-> params]
          /\ mem' = [params |-> params]
    /\ op' = "sample_perturbation"
    /\ pc' = "sample"
    /\ UNCHANGED <<method, scale, lr, c, h, losses, sampleLog, fwdLog, result>>

\* one turn of the loop: h[key] = sampler.sample(sample_shape=val.shape);
\* the keys come in the dict's insertion order, which is any order here
Sample ==
    /\ pc = "sample"
    /\ \E key \in DOMAIN mem.params \ DOMAIN h :
          LET val == mem.params[key] IN
          \E s \in Samples(Shape(val)) :
              /\ h' = h @@ (key :> s)
              /\ sampleLog' = Append(sampleLog,
                                [key |-> key, sample_shape |-> Shape(val), out |-> s])
    /\ UNCHANGED <<pc, op, method, scale, lr, c, mem, mem0, losses, fwdLog, result>>

\* return h
SampleReturn ==
    /\ pc = "sample"
    /\ op = "sample_perturbation"
    /\ DOMAIN h = DOMAIN mem.params
    /\ result' = Ok(h)
    /\ pc' = "returned"
    /\ UNCHANGED <<op, method, scale, lr, c, mem, mem0, h, losses, sampleLog, fwdLog>>

(* ------- compute_gradient, compute_gradient_vector, compute_snn_gradient ---- *)

ValueError ==
    [type |-> "ValueError",
     msg |-> <<"Invalid", "option", "given.", "Choose", "between:",
               "{", "ffd", ",", "cfd", "}">>]

CallGradient ==
    /\ pc = "idle"
    /\ \E f \in GradientOps, params \in ParamSets, m \in Methods :
          /\ op' = f
          /\ method' = m
          /\ mem0' = [params |-> params]
          /\ mem' = [params |-> params]
    /\ pc' = "sample"
    /\ UNCHANGED <<scale, lr, c, h, losses, sampleLog, fwdLog, result>>

\* if method == "ffd": ... elif method == "cfd": ... else: raise
Branch_default(m) == IF m = "cfd" THEN "cfd" ELSE "ffd"
Branch(m) == IF m = "ffd" THEN "ffd" ELSE IF m = "cfd" THEN "cfd" ELSE "raise"

\* the losses a branch assigns, in the order of its forward_pass calls
Plan_cleanfirst(b) ==
    IF b = "ffd" THEN <<"clean_loss", "perturbed_loss">>
    ELSE <<"clean_loss", "perturbed_loss", "neg_perturbed_loss">>
Plan(b) ==
    IF b = "ffd" THEN <<"clean_loss", "perturbed_loss">>
    ELSE <<"perturbed_loss", "neg_perturbed_loss">>

\* dictionary_mult(h, -1)
Negated_same(hh) == hh
Negated(hh) == dictionary_mult(hh, R(-1))

\* the arguments of the forward_pass call that assigns the loss `name`:
\* how many, which dict goes with inputs (and y), and whether that dict is the
\* caller's params object, the local h, or a new dict
CallArg(f, name, params, hh) ==
    IF f = "compute_snn_gradient"
    THEN CASE name = "clean_loss" ->
                [nargs |-> 2, ref |-> "none", dict |-> EmptyDict]
           [] name = "perturbed_loss" ->
                [nargs |-> 3, ref |-> "h", dict |-> hh]
           [] name = "neg_perturbed_loss" ->
                [nargs |-> 3, ref |-> "new", dict |-> Negated(hh)]
    ELSE CASE name = "clean_loss" ->
                [nargs |-> 2, ref |-> "params", dict |-> params]
           [] name = "perturbed_loss" ->
                [nargs |-> 2, ref |-> "new", dict |-> dictionary_add(params, hh).val]
           [] name = "neg_perturbed_loss" ->
                [nargs |-> 2, ref |-> "new", dict |-> dictionary_add(params, Negated(hh)).val]

\* the caller's params object after the arguments of that call were built
ParamsAfter(f, name, params, hh) ==
    IF f = "compute_snn_gradient" \/ name = "clean_loss" THEN params
    ELSE IF name = "perturbed_loss" THEN AddFrame(params, hh)[1]
    ELSE AddFrame(params, Negated(hh))[1]

\* an exception of forward_pass leaves the function: there is no try
Propagates_swallowed(out) == FALSE
Propagates(out) == out.kind = "raise"

\* gradient = dictionary_mult(h, (perturbed_loss - clean_loss))
FfdGradient_reversed(hh, ls) ==
    dictionary_mult(hh, RSub(ls["clean_loss"], ls["perturbed_loss"]))
FfdGradient(hh, ls) ==
    dictionary_mult(hh, RSub(ls["perturbed_loss"], ls["clean_loss"]))

\* gradient = dictionary_mult(h, (perturbed_loss - neg_perturbed_loss))
CfdGradient(hh, ls) ==
    dictionary_mult(hh, RSub(ls["perturbed_loss"], ls["neg_perturbed_loss"]))

\* h is sampled; now the branch on method
Dispatch ==
    /\ pc = "sample"
    /\ op \in GradientOps
    /\ DOMAIN h = DOMAIN mem.params
    /\ IF Branch(method) = "raise"
       THEN /\ result' = Raise(ValueError)
            /\ pc' = "returned"
       ELSE /\ pc' = "eval"
            /\ UNCHANGED result
    /\ UNCHANGED <<op, method, scale, lr, c, mem, mem0, h, losses, sampleLog, fwdLog>>

\* one forward_pass call and the assignment of its loss; after the last one,
\* step 3 and return gradient
Eval ==
    /\ pc = "eval"
    /\ LET b == Branch(method)
           plan == Plan(b)
           name == plan[Cardinality(DOMAIN losses) + 1]
           call == CallArg(op, name, mem.params, h)
       IN  \E out \in Outcomes :
             /\ fwdLog' = Append(fwdLog, [nargs |-> call.nargs, ref |-> call.ref,
                                          dict |-> call.dict, out |-> out])
             /\ mem' = [mem EXCEPT !.params = ParamsAfter(op, name, mem.params, h)]
             /\ h' = IF name = "neg_perturbed_loss" THEN MultFrame(h, R(-1)) ELSE h
             /\ IF Propagates(out)
                THEN /\ result' = Raise(out.err)
                     /\ pc' = "returned"
                     /\ UNCHANGED losses
                ELSE LET ls == losses @@ (name :> out.loss) IN
                     /\ losses' = ls
                     /\ IF Cardinality(DOMAIN ls) = Len(plan)
                        THEN /\ result' = Ok(IF b = "ffd" THEN FfdGradient(h, ls)
                                                          ELSE CfdGradient(h, ls))
                             /\ pc' = "returned"
                        ELSE UNCHANGED <<result, pc>>
    /\ UNCHANGED <<op, method, scale, lr, c, mem0, sampleLog>>

(* ------------------------------ the caller ------------------------------ *)

\* the caller takes the result; the next call starts afresh
Return ==
    /\ pc = "returned"
    /\ pc' = "idle"
    /\ op' = "none"
    /\ method' = "ffd"
    /\ scale' = R(1)
    /\ lr' = R(0)
    /\ c' = R(1)
    /\ mem' = EmptyDict
    /\ mem0' = EmptyDict
    /\ h' = EmptyDict
    /\ losses' = NoLosses
    /\ sampleLog' = <<>>
    /\ fwdLog' = <<>>
    /\ result' = NoResult

Next ==
    \/ CallDictionaryAdd
    \/ CallDictionaryMult
    \/ CallUpdateWeights
    \/ CallSamplePerturbation
    \/ Sample
    \/ SampleReturn
    \/ CallGradient
    \/ Dispatch
    \/ Eval
    \/ Return

Spec == Init /\ [][Next]_vars

(* ------------------------------- claims --------------------------------- *)

Range(seq) == {seq[i] : i \in DOMAIN seq}
InGradient == op \in GradientOps
Finished == pc = "returned"
Succeeded == pc = "returned" /\ result.kind = "ok"
Failed == pc = "returned" /\ result.kind = "raise"
PlainOp == op \in {"compute_gradient", "compute_gradient_vector"}

\* params + sign * h, key by key and element by element
Shifted(params, hh, sign) ==
    [k \in DOMAIN params |->
        [i \in 1..Len(params[k]) |-> RAdd(params[k][i], RMul(R(sign), hh[k][i]))]]

\* h times the difference of the losses of two logged forward_pass calls
Estimate(hh, first, second) ==
    [k \in DOMAIN hh |->
        [i \in 1..Len(hh[k]) |->
            RMul(hh[k][i], RSub(fwdLog[first].out.loss, fwdLog[second].out.loss))]]

\* C1: a gradient call with a method other than "ffd" and "cfd" never calls
\* forward_pass, and when it ends it has raised a ValueError whose message names
\* both "ffd" and "cfd"
C1_InvalidMethod ==
    (InGradient /\ method \notin {"ffd", "cfd"}) =>
        /\ fwdLog = <<>>
        /\ pc # "eval"
        /\ Finished =>
              /\ result.kind = "raise"
              /\ result.err.type = "ValueError"
              /\ {"ffd", "cfd"} \subseteq Range(result.err.msg)

C1_Witness ==
    /\ InGradient /\ method = "sgd" /\ Failed
    /\ DOMAIN mem0.params = Keys
    /\ Len(sampleLog) = 2

C4_UpdateWeights ==
    (op = "update_weights" /\ Finished /\ scale.n # 0) =>
        LET gradient == mem0.gradient
            params == mem0.params
        IN  /\ IF DOMAIN gradient \subseteq DOMAIN params
               THEN /\ result.kind = "ok"
                    /\ DOMAIN result.val = DOMAIN gradient
                    /\ \A k \in DOMAIN gradient :
                         /\ Len(result.val[k]) = Len(gradient[k])
                         /\ \A i \in 1..Len(gradient[k]) :
                               result.val[k][i] =
                                  RAdd(params[k][i],
                                       RMul(RDiv(RNeg(lr), RMul(scale, scale)),
                                            gradient[k][i]))
               ELSE result.kind = "raise" /\ result.err.type = "KeyError"
            /\ ( /\ gradient = [k \in {"w"} |-> <<R(2)>>]
                 /\ params = [k \in {"w"} |-> <<R(10)>>]
                 /\ scale = R(1) /\ lr = Q(1, 10) )
               => result.val = [k \in {"w"} |-> <<Q(98, 10)>>]

C4_Witness ==
    /\ op = "update_weights" /\ Succeeded
    /\ mem0.gradient = [k \in {"w"} |-> <<R(2)>>]
    /\ mem0.params = [k \in {"w"} |-> <<R(10)>>]
    /\ scale = R(1) /\ lr = Q(1, 10)
    /\ result.val["w"] = <<Q(49, 5)>>

\* C5: dictionary_add(dict1, dict2) returns, when dict2 has every key of dict1, a
\* dict with exactly dict1's keys and dict1[k] + dict2[k] at each, whatever other
\* keys dict2 has; when a key of dict1 is missing from dict2 it raises KeyError
\* and returns nothing
C5_DictionaryAdd ==
    (op = "dictionary_add" /\ Finished) =>
        LET dict1 == mem0.dict1
            dict2 == mem0.dict2
        IN  IF DOMAIN dict1 \subseteq DOMAIN dict2
            THEN /\ result.kind = "ok"
                 /\ DOMAIN result.val = DOMAIN dict1
                 /\ \A k \in DOMAIN dict1 :
                      /\ Len(result.val[k]) = Len(dict1[k])
                      /\ \A i \in 1..Len(dict1[k]) :
                            result.val[k][i] = RAdd(dict1[k][i], dict2[k][i])
            ELSE /\ result.kind = "raise"
                 /\ result.err.type = "KeyError"
                 /\ result.val = EmptyDict

C5_Witness ==
    /\ op = "dictionary_add" /\ Succeeded
    /\ DOMAIN mem0.dict1 = {"w"}
    /\ DOMAIN mem0.dict2 = Keys
    /\ Len(mem0.dict1["w"]) = 2

\* C6 as stated: update_weights with lr = 0 returns params itself, whatever the
\* gradient and the scale
C6_Original ==
    (op = "update_weights" /\ Finished /\ lr.n = 0) =>
        result.kind = "ok" /\ result.val = mem0.params

\* C6 amended: update_weights with lr = 0 and scale # 0 returns, when params has
\* every key of gradient, params cut down to gradient's keys (so params itself
\* when the two have the same keys), and raises KeyError otherwise; with
\* scale = 0 it raises ZeroDivisionError unless gradient is empty
C6_Amended ==
    (op = "update_weights" /\ Finished /\ lr.n = 0) =>
        LET gradient == mem0.gradient
            params == mem0.params
        IN  IF scale.n = 0
            THEN IF DOMAIN gradient = {}
                 THEN result.kind = "ok" /\ result.val = EmptyDict
                 ELSE result.kind = "raise" /\ result.err.type = "ZeroDivisionError"
            ELSE IF DOMAIN gradient \subseteq DOMAIN params
                 THEN /\ result.kind = "ok"
                      /\ result.val = Restrict(params, DOMAIN gradient)
                      /\ DOMAIN gradient = DOMAIN params => result.val = params
                 ELSE result.kind = "raise" /\ result.err.type = "KeyError"

C6_Witness ==
    /\ op = "update_weights" /\ Succeeded /\ lr.n = 0 /\ scale = R(2)
    /\ DOMAIN mem0.gradient = {"w"}
    /\ DOMAIN mem0.params = Keys
    /\ mem0.gradient["w"] = <<R(-3)>>
    /\ result.val = Restrict(mem0.params, {"w"})

\* C7: sample_perturbation calls sampler.sample once per key of params, with the
\* shape of params[key], and returns a dict with params' keys whose value at a
\* key is the sample drawn for it; for empty params it draws nothing and
\* returns the empty dict
C7_SamplePerturbation ==
    (op = "sample_perturbation" \/ InGradient) =>
        LET params == mem0.params IN
        /\ \A i \in DOMAIN sampleLog :
              /\ sampleLog[i].key \in DOMAIN params
              /\ sampleLog[i].sample_shape = Len(params[sampleLog[i].key])
              /\ Len(sampleLog[i].out) = Len(params[sampleLog[i].key])
              /\ \A j \in DOMAIN sampleLog : sampleLog[i].key = sampleLog[j].key => i = j
        /\ (op = "sample_perturbation" /\ Finished) =>
              /\ result.kind = "ok"
              /\ DOMAIN result.val = DOMAIN params
              /\ Len(sampleLog) = Cardinality(DOMAIN params)
              /\ \A k \in DOMAIN params :
                    /\ Len(result.val[k]) = Len(params[k])
                    /\ \E i \in DOMAIN sampleLog :
                          sampleLog[i].key = k /\ sampleLog[i].out = result.val[k]
              /\ DOMAIN params = {} => sampleLog = <<>> /\ result.val = EmptyDict

C7_Witness ==
    /\ op = "sample_perturbation" /\ Succeeded
    /\ DOMAIN mem0.params = Keys
    /\ Len(mem0.params["w"]) = 2 /\ Len(mem0.params["b"]) = 1
    /\ Len(sampleLog) = 2

\* C8: at every point of every call, each dict the caller passed in has the keys
\* and values it had when the call was made, and the second forward_pass call of
\* "cfd" gets the caller's params minus h, not the first call's params + h minus h
C8_NoMutation ==
    /\ mem = mem0
    /\ (PlainOp /\ method = "cfd" /\ Len(fwdLog) = 2) =>
          fwdLog[2].dict = Shifted(mem0.params, h, -1)
    /\ (PlainOp /\ method = "ffd" /\ Len(fwdLog) = 2) =>
          fwdLog[1].dict = mem0.params

C8_Witness ==
    /\ op = "compute_gradient_vector" /\ method = "cfd" /\ Finished
    /\ Len(fwdLog) = 2
    /\ DOMAIN mem.params = Keys
    /\ fwdLog[1].dict # mem.params

\* C9: a forward_pass call that raised is the last call made; the gradient call
\* has ended, raising that very error, and has returned no dict
C9_FailurePropagates ==
    InGradient =>
        \A i \in DOMAIN fwdLog :
            fwdLog[i].out.kind = "raise" =>
                /\ i = Len(fwdLog)
                /\ pc = "returned"
                /\ result.kind = "raise"
                /\ result.err = fwdLog[i].out.err
                /\ result.val = EmptyDict

C9_Witness ==
    /\ InGradient /\ method = "cfd" /\ Failed
    /\ Len(fwdLog) = 1
    /\ fwdLog[1].out.kind = "raise"
    /\ result.err.type = "FloatingPointError"

\* C10 as stated: a successful gradient call has made one forward_pass call with
\* "ffd" and two with "cfd"
C10_Original ==
    (InGradient /\ Succeeded) =>
        Len(fwdLog) = IF method = "ffd" THEN 1 ELSE 2

\* C10 amended: a successful gradient call has made exactly two forward_pass
\* calls, one after the other, with "ffd" as with "cfd"
C10_Amended ==
    (InGradient /\ Succeeded) =>
        /\ method \in {"ffd", "cfd"}
        /\ Len(fwdLog) = 2
        /\ \A e \in Range(fwdLog) : e.out.kind = "loss"

C10_Witness ==
    /\ InGradient /\ method = "ffd" /\ Succeeded
    /\ Len(fwdLog) = 2
    /\ DOMAIN h # {}

====
